---- MODULE Spec2Model ----
(***************************************************************************)
(* Model of autheos_message.py: the tokenizer, the per-window reveal       *)
(* controller (MessageWindow) and the window orchestrator (MessageApp).    *)
(* Strings are sequences of one-character strings.  Timers of the GLib     *)
(* main loop are counted sources that the loop may dispatch in any order.  *)
(***************************************************************************)
EXTENDS Integers, Sequences, FiniteSets, TLC

VARIABLES
    args,               \* argparse.Namespace (parse_args)
    Gtk4LayerShell,     \* TRUE iff the Gtk4LayerShell import succeeded
    display,            \* TRUE iff Gdk.Display.get_default() is not None
    monitors,           \* display.get_monitors(): per item "ok" | "fail" | "null"
    windows,            \* MessageApp.windows
    animation_started,  \* MessageApp.animation_started
    destroyed,          \* windows on which destroy() was called
    warnings,           \* lines printed to stderr
    quit_requested,     \* app.quit() was called
    activations,        \* number of activate signals delivered
    key_handled,        \* what the last _on_key_pressed returned, "none" before
    environ,            \* os.environ of the running process image
    detected,           \* ctypes.util.find_library("gtk4-layer-shell")
    existing,           \* the absolute paths for which os.path.exists is True
    is_main,            \* __name__ == "__main__"
    startup             \* where the process chain is: phase, execs so far,
                        \* library given to the last exec

vars == <<args, Gtk4LayerShell, display, monitors, windows, animation_started,
          destroyed, warnings, quit_requested, activations, key_handled,
          environ, detected, existing, is_main, startup>>

----------------------------------------------------------------------------
(* Bounds of the model *)

MaxLen == 2
MaxMonitors == 2
MaxActivations == 2
MaxCalls == 3
MaxExecs == 2

(* Inputs *)

\* "zwsp" stands for U+200B ZERO WIDTH SPACE: not whitespace to str or re,
\* and laid out with no width
Chars == {"a", "zwsp", " "}
Modes == {"char", "word"}
RevealPositions == {"left-to-center", "center", "left"}
\* --speed in hundredths of a token per second
Speeds == {-100, 1500}
\* --exit-after in tenths of a millisecond
ExitAfters == {-10000, 0, 5000}
Keyvals == {"Escape", "Return", "KP_Enter", "space"}

RECURSIVE SeqsUpTo(_, _)
SeqsUpTo(S, n) ==
    IF n = 0 THEN {<<>>}
    ELSE LET shorter == SeqsUpTo(S, n - 1)
         IN  shorter \cup {Append(s, c) : s \in {t \in shorter : Len(t) = n - 1}, c \in S}

Messages == SeqsUpTo(Chars, MaxLen)

----------------------------------------------------------------------------
(* tokenize *)

IsSpace(c) == c = " "

RECURSIVE RunEnd(_, _, _)
\* last position of the maximal run starting at i of characters whose
\* IsSpace value is sp; i - 1 when the run is empty
RunEnd(message, i, sp) ==
    IF i <= Len(message) /\ IsSpace(message[i]) = sp
    THEN RunEnd(message, i + 1, sp)
    ELSE i - 1

RECURSIVE FindAllWords(_, _)
\* re.findall(r"\S+\s*", message) scanning from position i
FindAllWords(message, i) ==
    IF i > Len(message) THEN <<>>
    ELSE IF IsSpace(message[i]) THEN FindAllWords(message, i + 1)
    ELSE LET j == RunEnd(message, i, FALSE)
             k == RunEnd(message, j + 1, TRUE)
         IN  <<SubSeq(message, i, k)>> \o FindAllWords(message, k + 1)

tokenize(message, mode) ==
    IF mode = "char"
    THEN [i \in 1..Len(message) |-> <<message[i]>>]
    ELSE FindAllWords(message, 1)

RECURSIVE Concat(_)
Concat(toks) ==
    IF toks = <<>> THEN <<>> ELSE Head(toks) \o Concat(Tail(toks))

----------------------------------------------------------------------------
(* _find_gtk4_layer_shell_library and _ensure_layer_shell_preloaded *)

Candidates ==
    <<"libgtk4-layer-shell.so.0",
      "libgtk4-layer-shell.so",
      "/usr/lib/libgtk4-layer-shell.so.0",
      "/usr/lib/libgtk4-layer-shell.so",
      "/usr/lib64/libgtk4-layer-shell.so.0",
      "/usr/lib64/libgtk4-layer-shell.so">>

\* what find_library may return: nothing, a soname, or a full path
DetectedValues ==
    {"None", "libgtk4-layer-shell.so.0", "/usr/local/lib/libgtk4-layer-shell.so"}

\* os.path.isabs over the names of the model
AbsolutePaths ==
    {"/usr/lib/libgtk4-layer-shell.so.0",
     "/usr/lib/libgtk4-layer-shell.so",
     "/usr/lib64/libgtk4-layer-shell.so.0",
     "/usr/lib64/libgtk4-layer-shell.so",
     "/usr/local/lib/libgtk4-layer-shell.so"}

IsAbs(path) == path \in AbsolutePaths

\* "gtk4-layer-shell" in current_preload; LD_PRELOAD is kept as the
\* sequence of its entries
ContainsLayerShell(preload) ==
    \E i \in 1..Len(preload) :
        preload[i] \in (DetectedValues \ {"None"})
                          \cup {Candidates[j] : j \in 1..Len(Candidates)}

\* values of LD_PRELOAD at process start; "" is the empty sequence
PreloadValues ==
    {<<>>, <<"libother.so">>, <<"libgtk4-layer-shell.so.0">>,
     <<"libother.so", "/usr/lib/libgtk4-layer-shell.so">>}

\* values of the two flag variables at process start
FlagValues == {"unset", "0", "1"}

RECURSIVE FirstUsable(_)
\* the for loop over candidates
FirstUsable(candidates) ==
    IF candidates = <<>> THEN "None"
    ELSE LET candidate == Head(candidates)
         IN  IF IsAbs(candidate)
             THEN IF candidate \in existing THEN candidate
                  ELSE FirstUsable(Tail(candidates))
             ELSE candidate

find_gtk4_layer_shell_library ==
    FirstUsable((IF detected # "None" THEN <<detected>> ELSE <<>>) \o Candidates)

\* _ensure_layer_shell_preloaded leaving HYPR_MESSAGE_PRELOAD_DONE alone
ensure_without_guard ==
    IF \/ ~is_main
       \/ environ.HYPR_MESSAGE_PRELOAD_DONE = "1"
       \/ environ.HYPR_MESSAGE_DISABLE_PRELOAD = "1"
       \/ ContainsLayerShell(environ.LD_PRELOAD)
    THEN [exec |-> FALSE, library |-> "None", env |-> environ]
    ELSE LET library == find_gtk4_layer_shell_library
         IN  IF library = "None"
             THEN [exec |-> FALSE, library |-> "None", env |-> environ]
             ELSE [exec |-> TRUE, library |-> library,
                   env |-> [environ EXCEPT !.LD_PRELOAD = <<library>> \o @]]

\* _ensure_layer_shell_preloaded: whether it calls os.execvpe, with which
\* library and with which environment
ensure_layer_shell_preloaded ==
    IF \/ ~is_main
       \/ environ.HYPR_MESSAGE_PRELOAD_DONE = "1"
       \/ environ.HYPR_MESSAGE_DISABLE_PRELOAD = "1"
       \/ ContainsLayerShell(environ.LD_PRELOAD)
    THEN [exec |-> FALSE, library |-> "None", env |-> environ]
    ELSE LET library == find_gtk4_layer_shell_library
         IN  IF library = "None"
             THEN [exec |-> FALSE, library |-> "None", env |-> environ]
             ELSE [exec |-> TRUE, library |-> library,
                   env |-> [environ EXCEPT
                               !.LD_PRELOAD = <<library>> \o @,
                               !.HYPR_MESSAGE_PRELOAD_DONE = "1"]]

----------------------------------------------------------------------------
(* MessageWindow *)

Max(a, b) == IF a >= b THEN a ELSE b

\* --font-size default
FontSize == 72

\* layout.get_pixel_size() of label.create_pango_layout(text): the width,
\* one em for every character that has an advance
PixelWidth(text) ==
    Cardinality({i \in 1..Len(text) : text[i] # "zwsp"}) * FontSize

\* Gtk.Label(label=""), before any alignment call; size_request -1 is unset
NewLabel ==
    [text |-> <<>>, halign |-> "FILL", xalign |-> 50, justify |-> "LEFT",
     size_request |-> -1]

\* _reserve_final_width measuring the text the label shows
reserve_shown_width(label) ==
    LET width == PixelWidth(label.text)
    IN  IF width > 0 THEN [label EXCEPT !.size_request = width] ELSE label

reserve_final_width(label) ==
    LET width == PixelWidth(args.message)
    IN  IF width > 0 THEN [label EXCEPT !.size_request = width] ELSE label

\* xalign is kept in hundredths (0.5 is 50)
apply_reveal_position(label, is_animation_done) ==
    LET mode == args.reveal_position
    IN  IF mode = "center"
        THEN [label EXCEPT !.halign = "CENTER", !.xalign = 50,
                           !.justify = "CENTER", !.size_request = -1]
        ELSE IF mode = "left"
        THEN [label EXCEPT !.halign = "CENTER", !.xalign = 0,
                           !.justify = "LEFT", !.size_request = -1]
        ELSE IF is_animation_done
        THEN [label EXCEPT !.halign = "CENTER", !.xalign = 50,
                           !.justify = "CENTER", !.size_request = -1]
        ELSE reserve_final_width(
                 [label EXCEPT !.halign = "CENTER", !.xalign = 0,
                               !.justify = "LEFT"])

\* Gtk4LayerShell.is_layer_window(self) after init_for_window, decided by
\* the compositor for the monitor's output
setup_layer_shell(monitor) == monitors[monitor] = "ok"

\* MessageWindow(app, args, monitor); monitor 0 stands for None
MessageWindow(monitor) ==
    [monitor |-> monitor,
     tokens |-> tokenize(args.message, args.mode),
     index |-> 0,
     current_text |-> <<>>,
     exit_scheduled |-> FALSE,
     layer_shell_enabled |->
        IF monitor # 0 /\ Gtk4LayerShell THEN setup_layer_shell(monitor) ELSE FALSE,
     label |-> apply_reveal_position(NewLabel, FALSE),
     presented |-> FALSE,
     tick_sources |-> 0,     \* installed recurring sources calling _tick
     exit_sources |-> 0,     \* pending one-shot sources calling _exit
     interval_ms |-> 0,      \* period given to the last timeout_add(_tick)
     exit_delay_ms |-> -1,   \* delay given to the last timeout_add(_exit)
     n_starts |-> 0,         \* calls of start_animation
     n_ticks |-> 0,          \* calls of _tick
     n_final |-> 0,          \* calls of _apply_reveal_position(True)
     n_exit_timers |-> 0]    \* calls of timeout_add(_exit)

\* the floor 0.01 of the speed, in hundredths
MinSpeed == 1

\* the period without the floor of the speed; a speed of 0 is taken as the
\* floor, where Python would raise ZeroDivisionError
interval_ms_unclamped(speed) ==
    Max(1, 100000 \div (IF speed = 0 THEN MinSpeed ELSE speed))

\* max(1, int(1000 / max(speed, 0.01))), speed in hundredths
interval_ms(speed) == Max(1, 100000 \div Max(speed, MinSpeed))

\* int(exit_after * 1000), exit_after in tenths of a millisecond
exit_delay_ms(exit_after) ==
    IF exit_after >= 0 THEN exit_after \div 10 ELSE -((-exit_after) \div 10)

\* _schedule_exit_if_needed taking only a negative exit_after as disabled
schedule_exit_if_nonnegative(w) ==
    IF args.exit_after < 0 \/ w.exit_scheduled
    THEN w
    ELSE [w EXCEPT !.exit_scheduled = TRUE,
                   !.exit_sources = @ + 1,
                   !.exit_delay_ms = exit_delay_ms(args.exit_after),
                   !.n_exit_timers = @ + 1]

\* _schedule_exit_if_needed setting the flag and installing no timer
schedule_exit_flag_only(w) ==
    IF args.exit_after <= 0 \/ w.exit_scheduled
    THEN w
    ELSE [w EXCEPT !.exit_scheduled = TRUE]

\* _schedule_exit_if_needed without the test of exit_scheduled
schedule_exit_unguarded(w) ==
    IF args.exit_after <= 0
    THEN w
    ELSE [w EXCEPT !.exit_scheduled = TRUE,
                   !.exit_sources = @ + 1,
                   !.exit_delay_ms = exit_delay_ms(args.exit_after),
                   !.n_exit_timers = @ + 1]

schedule_exit_if_needed(w) ==
    IF args.exit_after <= 0 \/ w.exit_scheduled
    THEN w
    ELSE [w EXCEPT !.exit_scheduled = TRUE,
                   !.exit_sources = @ + 1,
                   !.exit_delay_ms = exit_delay_ms(args.exit_after),
                   !.n_exit_timers = @ + 1]

\* the three lines shared by both completion paths
finish(w) ==
    schedule_exit_if_needed(
        [w EXCEPT !.label = apply_reveal_position(@, TRUE), !.n_final = @ + 1])

\* start_animation without the empty-sequence branch
start_animation_always_timer(w0) ==
    [w0 EXCEPT !.n_starts = @ + 1,
               !.interval_ms = interval_ms(args.speed),
               !.tick_sources = @ + 1]

\* start_animation applying the final layout before installing the timer
start_animation_final_first(w0) ==
    LET w == [w0 EXCEPT !.n_starts = @ + 1]
    IN  IF w.tokens = <<>>
        THEN finish(w)
        ELSE [w EXCEPT !.label = apply_reveal_position(@, TRUE),
                       !.n_final = @ + 1,
                       !.interval_ms = interval_ms(args.speed),
                       !.tick_sources = @ + 1]

start_animation(w0) ==
    LET w == [w0 EXCEPT !.n_starts = @ + 1]
    IN  IF w.tokens = <<>>
        THEN finish(w)
        ELSE [w EXCEPT !.interval_ms = interval_ms(args.speed),
                       !.tick_sources = @ + 1]

\* _tick taking the tokens from the far end
tick_reversed(w0) ==
    LET w == [w0 EXCEPT !.n_ticks = @ + 1]
    IN  IF w.index >= Len(w.tokens)
        THEN [win |-> finish(w), ret |-> FALSE]
        ELSE LET text == w.current_text \o w.tokens[Len(w.tokens) - w.index]
                 w1 == [w EXCEPT !.current_text = text,
                                 !.index = @ + 1,
                                 !.label = [@ EXCEPT !.text = text]]
             IN  IF w1.index >= Len(w1.tokens)
                 THEN [win |-> finish(w1), ret |-> FALSE]
                 ELSE [win |-> w1, ret |-> TRUE]

\* _tick without the completion check after the increment: completion is
\* noticed by the next firing
tick_late_completion(w0) ==
    LET w == [w0 EXCEPT !.n_ticks = @ + 1]
    IN  IF w.index >= Len(w.tokens)
        THEN [win |-> finish(w), ret |-> FALSE]
        ELSE LET text == w.current_text \o w.tokens[w.index + 1]
             IN  [win |-> [w EXCEPT !.current_text = text,
                                    !.index = @ + 1,
                                    !.label = [@ EXCEPT !.text = text]],
                  ret |-> TRUE]

\* _tick scheduling the exit after every token
tick_exit_every_token(w0) ==
    LET w == [w0 EXCEPT !.n_ticks = @ + 1]
    IN  IF w.index >= Len(w.tokens)
        THEN [win |-> finish(w), ret |-> FALSE]
        ELSE LET text == w.current_text \o w.tokens[w.index + 1]
                 w1 == [w EXCEPT !.current_text = text,
                                 !.index = @ + 1,
                                 !.label = [@ EXCEPT !.text = text]]
             IN  IF w1.index >= Len(w1.tokens)
                 THEN [win |-> finish(w1), ret |-> FALSE]
                 ELSE [win |-> schedule_exit_if_needed(w1), ret |-> TRUE]

\* _tick: the window afterwards and the callback's return value
tick(w0) ==
    LET w == [w0 EXCEPT !.n_ticks = @ + 1]
    IN  IF w.index >= Len(w.tokens)
        THEN [win |-> finish(w), ret |-> FALSE]
        ELSE LET text == w.current_text \o w.tokens[w.index + 1]
                 w1 == [w EXCEPT !.current_text = text,
                                 !.index = @ + 1,
                                 !.label = [@ EXCEPT !.text = text]]
             IN  IF w1.index >= Len(w1.tokens)
                 THEN [win |-> finish(w1), ret |-> FALSE]
                 ELSE [win |-> w1, ret |-> TRUE]

\* _on_key_pressed without the keypad Enter key
on_key_pressed_no_keypad(keyval) == keyval \in {"Escape", "Return"}

\* _on_key_pressed: TRUE iff the key requests app.quit()
on_key_pressed(keyval) == keyval \in {"Escape", "Return", "KP_Enter"}

----------------------------------------------------------------------------
(* MessageApp *)

WarnNoLayerShell == "Warning: gtk4-layer-shell not available"
WarnInitFailed == "Warning: Layer-shell init failed"

RECURSIVE MonitorLoop_keep_earlier(_, _)
\* the loop without the rollback of the windows made earlier in the pass
MonitorLoop_keep_earlier(index, acc) ==
    IF index > Len(monitors) THEN acc
    ELSE IF monitors[index] = "null" THEN MonitorLoop_keep_earlier(index + 1, acc)
    ELSE LET window == MessageWindow(index)
         IN  IF ~window.layer_shell_enabled
             THEN [acc EXCEPT !.destroyed = Append(@, window),
                              !.warnings = Append(@, WarnInitFailed)]
             ELSE MonitorLoop_keep_earlier(index + 1,
                              [acc EXCEPT !.windows = Append(@, window)])

RECURSIVE MonitorLoop_no_check(_, _)
\* the loop keeping every window, anchored or not
MonitorLoop_no_check(index, acc) ==
    IF index > Len(monitors) THEN acc
    ELSE IF monitors[index] = "null" THEN MonitorLoop_no_check(index + 1, acc)
    ELSE MonitorLoop_no_check(index + 1,
             [acc EXCEPT !.windows = Append(@, MessageWindow(index))])

RECURSIVE MonitorLoop(_, _)
\* the for loop of _build_windows from item index on; acc carries
\* self.windows, the destroyed windows and the warnings so far
MonitorLoop(index, acc) ==
    IF index > Len(monitors) THEN acc
    ELSE IF monitors[index] = "null" THEN MonitorLoop(index + 1, acc)
    ELSE LET window == MessageWindow(index)
         IN  IF ~window.layer_shell_enabled
             THEN [windows |-> <<>>,
                   destroyed |-> acc.destroyed \o <<window>> \o acc.windows,
                   warnings |-> Append(acc.warnings, WarnInitFailed)]
             ELSE MonitorLoop(index + 1,
                              [acc EXCEPT !.windows = Append(@, window)])

\* _build_windows without the tests of the capability: no warning, and the
\* per-display pass runs whenever all-monitors is requested
build_windows_no_capability_test ==
    LET start == [windows |-> windows, destroyed |-> destroyed, warnings |-> warnings]
    IN  IF windows # <<>> THEN start
        ELSE LET looped ==
                     IF args.all_monitors /\ display
                     THEN MonitorLoop(1, start)
                     ELSE start
             IN  IF looped.windows = <<>>
                 THEN [looped EXCEPT !.windows = <<MessageWindow(0)>>]
                 ELSE looped

build_windows ==
    LET start == [windows |-> windows, destroyed |-> destroyed, warnings |-> warnings]
    IN  IF windows # <<>> THEN start
        ELSE LET warned ==
                     IF args.all_monitors /\ ~Gtk4LayerShell
                     THEN [start EXCEPT !.warnings = Append(@, WarnNoLayerShell)]
                     ELSE start
                 looped ==
                     IF args.all_monitors /\ Gtk4LayerShell /\ display
                     THEN MonitorLoop(1, warned)
                     ELSE warned
             IN  IF looped.windows = <<>>
                 THEN [looped EXCEPT !.windows = <<MessageWindow(0)>>]
                 ELSE looped

present(w) == [w EXCEPT !.presented = TRUE]

\* do_activate without the animation_started guard
do_activate_restart ==
    LET built == build_windows
        shown == [i \in 1..Len(built.windows) |-> present(built.windows[i])]
    IN  /\ windows' = [i \in 1..Len(shown) |-> start_animation(shown[i])]
        /\ animation_started' = TRUE
        /\ destroyed' = built.destroyed
        /\ warnings' = built.warnings

do_activate ==
    LET built == build_windows
        shown == [i \in 1..Len(built.windows) |-> present(built.windows[i])]
    IN  /\ windows' = IF animation_started THEN shown
                      ELSE [i \in 1..Len(shown) |-> start_animation(shown[i])]
        /\ animation_started' = TRUE
        /\ destroyed' = built.destroyed
        /\ warnings' = built.warnings

----------------------------------------------------------------------------
(* The program as a state machine *)

\* the process once the module-level call of _ensure_layer_shell_preloaded
\* is behind it: here after one exec with the first relative candidate
StartedProcess ==
    /\ environ = [HYPR_MESSAGE_PRELOAD_DONE |-> "1",
                  HYPR_MESSAGE_DISABLE_PRELOAD |-> "unset",
                  LD_PRELOAD |-> <<"libgtk4-layer-shell.so.0">>]
    /\ detected = "None"
    /\ existing = {}
    /\ is_main = TRUE
    /\ startup = [phase |-> "gui", execs |-> 1,
                  library |-> "libgtk4-layer-shell.so.0"]

MonitorLists ==
    SeqsUpTo({"ok", "fail"}, MaxMonitors)

Init ==
    /\ args \in [message : Messages, mode : Modes, speed : Speeds,
                 exit_after : ExitAfters, reveal_position : RevealPositions,
                 all_monitors : BOOLEAN]
    /\ Gtk4LayerShell \in BOOLEAN
    /\ display \in BOOLEAN
    /\ monitors \in MonitorLists
    /\ ~display => monitors = <<>>
    /\ windows = <<>>
    /\ animation_started = FALSE
    /\ destroyed = <<>>
    /\ warnings = <<>>
    /\ quit_requested = FALSE
    /\ activations = 0
    /\ key_handled = "none"
    /\ StartedProcess

env == <<args, Gtk4LayerShell, display, monitors, environ, detected, existing,
         is_main, startup>>

\* g_application_run emits activate; the signal may be emitted again
Activate ==
    /\ ~quit_requested
    /\ activations < MaxActivations
    /\ activations' = activations + 1
    /\ do_activate
    /\ UNCHANGED <<env, quit_requested, key_handled>>

\* a dispatch of _tick whose effect lands on every window, as it would
\* with the animation state kept on the class
TickFire_shared(i) ==
    /\ ~quit_requested
    /\ windows[i].tick_sources > 0
    /\ LET r == tick(windows[i])
       IN  windows' = [j \in 1..Len(windows) |->
                          IF j = i
                          THEN IF r.ret THEN r.win
                               ELSE [r.win EXCEPT !.tick_sources = @ - 1]
                          ELSE [windows[j] EXCEPT
                                   !.index = r.win.index,
                                   !.current_text = r.win.current_text]]
    /\ UNCHANGED <<env, animation_started, destroyed, warnings, quit_requested,
                   activations, key_handled>>

\* the main loop dispatches a recurring source of window i
TickFire(i) ==
    /\ ~quit_requested
    /\ windows[i].tick_sources > 0
    /\ LET r == tick(windows[i])
       IN  windows' = [windows EXCEPT ![i] =
                          IF r.ret THEN r.win
                          ELSE [r.win EXCEPT !.tick_sources = @ - 1]]
    /\ UNCHANGED <<env, animation_started, destroyed, warnings, quit_requested,
                   activations, key_handled>>

\* the main loop dispatches the one-shot source of window i: _exit
ExitFire(i) ==
    /\ ~quit_requested
    /\ windows[i].exit_sources > 0
    /\ windows' = [windows EXCEPT ![i].exit_sources = @ - 1]
    /\ quit_requested' = TRUE
    /\ UNCHANGED <<env, animation_started, destroyed, warnings, activations,
                   key_handled>>

\* a key press is delivered to window i
KeyPressed(i, keyval) ==
    /\ ~quit_requested
    /\ windows[i].presented
    /\ key_handled' = IF on_key_pressed(keyval) THEN "True" ELSE "False"
    /\ quit_requested' = on_key_pressed(keyval)
    /\ UNCHANGED <<env, windows, animation_started, destroyed, warnings,
                   activations>>

Next ==
    \/ Activate
    \/ \E i \in 1..Len(windows) : TickFire(i)
    \/ \E i \in 1..Len(windows) : ExitFire(i)
    \/ \E i \in 1..Len(windows), keyval \in Keyvals : KeyPressed(i, keyval)

Spec == Init /\ [][Next]_vars

\* the message has no zero-width character
PlainMessage == \A i \in 1..Len(args.message) : args.message[i] # "zwsp"

\* The runs for the animation and the window set.  reveal_position and the
\* width of the characters are read by _apply_reveal_position and
\* _reserve_final_width alone and reach nothing but the label, so these
\* runs keep the default layout and the messages of letters and spaces.
InitAnim ==
    /\ Init
    /\ args.reveal_position = "left-to-center"
    /\ PlainMessage

SpecAnim == InitAnim /\ [][Next]_vars

\* The runs for the label layout: every reveal_position and every message,
\* at the default speed and with auto-close on, which the layout never reads.
InitLayout ==
    /\ Init
    /\ args.speed = 1500
    /\ args.exit_after = 5000

SpecLayout == InitLayout /\ [][Next]_vars

\* The GLib main loop dispatches every installed timeout source once it is
\* due, and g_application_run emits the first activate; key presses and
\* further activations are up to the user.
MaxWindows == Max(1, MaxMonitors)

Fairness ==
    /\ WF_vars(activations = 0 /\ Activate)
    /\ \A i \in 1..MaxWindows :
          /\ WF_vars(i <= Len(windows) /\ TickFire(i))
          /\ WF_vars(i <= Len(windows) /\ ExitFire(i))

\* runs with auto-close enabled; the label layout is off the path to
\* shutdown: it is left at its default and the messages are those without
\* the zero-width character, which differs from a letter in width alone
InitFair ==
    /\ Init
    /\ args.exit_after > 0
    /\ args.reveal_position = "left-to-center"
    /\ PlainMessage

SpecFair == InitFair /\ [][Next]_vars /\ Fairness

----------------------------------------------------------------------------
(* A window object driven by direct calls of its methods *)

InitCalls ==
    /\ args \in [message : Messages, mode : Modes, speed : Speeds,
                 exit_after : ExitAfters, reveal_position : RevealPositions,
                 all_monitors : BOOLEAN]
    /\ Gtk4LayerShell = FALSE
    /\ display = FALSE
    /\ monitors = <<>>
    /\ windows = <<present(MessageWindow(0))>>
    /\ animation_started = FALSE
    /\ destroyed = <<>>
    /\ warnings = <<>>
    /\ quit_requested = FALSE
    /\ activations = 0
    /\ key_handled = "none"
    /\ StartedProcess

Calls(w) == w.n_starts + w.n_ticks

\* window.start_animation()
CallStart(i) ==
    /\ Calls(windows[i]) < MaxCalls
    /\ windows' = [windows EXCEPT ![i] = start_animation(@)]
    /\ UNCHANGED <<env, animation_started, destroyed, warnings, quit_requested,
                   activations, key_handled>>

\* window._tick(), the return value dropped
CallTick(i) ==
    /\ Calls(windows[i]) < MaxCalls
    /\ windows' = [windows EXCEPT ![i] = tick(@).win]
    /\ UNCHANGED <<env, animation_started, destroyed, warnings, quit_requested,
                   activations, key_handled>>

NextCalls ==
    \/ \E i \in 1..Len(windows) : CallStart(i)
    \/ \E i \in 1..Len(windows) : CallTick(i)
    \/ \E i \in 1..Len(windows) : ExitFire(i)

SpecCalls == InitCalls /\ [][NextCalls]_vars

----------------------------------------------------------------------------
(* The process chain before GUI startup *)

DefaultArgs ==
    [message |-> <<"a">>, mode |-> "char", speed |-> 1500, exit_after |-> 10000,
     reveal_position |-> "left-to-center", all_monitors |-> TRUE]

InitPreload ==
    /\ environ \in [HYPR_MESSAGE_PRELOAD_DONE : FlagValues,
                    HYPR_MESSAGE_DISABLE_PRELOAD : FlagValues,
                    LD_PRELOAD : PreloadValues]
    /\ detected \in DetectedValues
    /\ existing \in SUBSET AbsolutePaths
    /\ is_main \in BOOLEAN
    /\ startup = [phase |-> "start", execs |-> 0, library |-> "None"]
    /\ args = DefaultArgs
    /\ Gtk4LayerShell = FALSE
    /\ display = FALSE
    /\ monitors = <<>>
    /\ windows = <<>>
    /\ animation_started = FALSE
    /\ destroyed = <<>>
    /\ warnings = <<>>
    /\ quit_requested = FALSE
    /\ activations = 0
    /\ key_handled = "none"

\* the module-level call of _ensure_layer_shell_preloaded: os.execvpe
\* replaces the process image, which runs the module from the top with the
\* new environment; otherwise the imports and main() follow
EnsurePreloaded ==
    /\ startup.phase = "start"
    /\ LET r == ensure_layer_shell_preloaded
       IN  IF r.exec
           THEN /\ startup.execs < MaxExecs
                /\ environ' = r.env
                /\ startup' = [phase |-> "start", execs |-> startup.execs + 1,
                               library |-> r.library]
           ELSE /\ environ' = environ
                /\ startup' = [startup EXCEPT !.phase = "gui"]
    /\ UNCHANGED <<args, Gtk4LayerShell, display, monitors, windows,
                   animation_started, destroyed, warnings, quit_requested,
                   activations, key_handled, detected, existing, is_main>>

NextPreload == EnsurePreloaded

SpecPreload == InitPreload /\ [][NextPreload]_vars

----------------------------------------------------------------------------
(* Properties *)

Windows == {windows[i] : i \in 1..Len(windows)}

NTokens(w) == Len(w.tokens)

\* the window has been started and has revealed every token
AnimDone(w) == w.n_starts > 0 /\ w.index = NTokens(w)

\* C1: for both modes, concatenating the tokens of a window in order gives
\* back the message, leading whitespace and whitespace-only messages included.
C1_ConcatIsMessage ==
    \A w \in Windows : Concat(w.tokens) = args.message

\* C2: in every state 0 <= index <= len(tokens) and current_text is the
\* concatenation of tokens[0:index]; from one state to the next the index of
\* a window never decreases and grows by one exactly on a call of _tick.
C2_PrefixInOrder ==
    /\ [](\A w \in Windows :
             /\ 0 <= w.index /\ w.index <= NTokens(w)
             /\ w.current_text = Concat(SubSeq(w.tokens, 1, w.index)))
    /\ [][\A i \in 1..Len(windows) :
             /\ windows'[i].index >= windows[i].index
             /\ windows'[i].index - windows[i].index
                    = windows'[i].n_ticks - windows[i].n_ticks
             /\ windows'[i].index <= windows[i].index + 1]_vars

\* a window has revealed two different tokens, in order
C2_Witness ==
    \E w \in Windows :
        /\ w.index = 2
        /\ w.tokens[1] # w.tokens[2]
        /\ w.current_text = w.tokens[1] \o w.tokens[2]

\* C3: with N > 0 tokens the recurring timer fires N times and no more: the
\* index counts the firings, the final layout is applied exactly when the
\* index has reached N, and from then on no recurring source is installed.
C3_DoneAfterNTicks ==
    \A w \in Windows :
        NTokens(w) > 0 =>
            /\ w.n_ticks = w.index
            /\ w.n_ticks <= NTokens(w)
            /\ (w.index = NTokens(w)) = (w.n_final = 1)
            /\ w.index = NTokens(w) => w.tick_sources = 0
            /\ w.index < NTokens(w) => w.n_final = 0 /\ w.tick_sources = w.n_starts

\* the second of two firings has finished a window
C3_Witness ==
    \E w \in Windows :
        NTokens(w) = 2 /\ w.n_ticks = 2 /\ w.n_final = 1 /\ w.tick_sources = 0

\* C4: a window with no tokens is Done as soon as it is started: the final
\* layout is applied by start_animation, no recurring timer is installed,
\* _tick never runs, and current_text and index stay "" and 0.
C4_EmptyGoesToDone ==
    \A w \in Windows :
        NTokens(w) = 0 =>
            /\ w.n_final = w.n_starts
            /\ w.tick_sources = 0
            /\ w.interval_ms = 0
            /\ w.n_ticks = 0
            /\ w.current_text = <<>>
            /\ w.index = 0

\* a started window whose message is not empty but has no tokens
C4_Witness ==
    \E w \in Windows :
        /\ NTokens(w) = 0 /\ w.n_starts = 1 /\ w.n_final = 1
        /\ args.message # <<>>

\* the one-shot source of w has been dispatched
ExitFired(w) == w.n_exit_timers > w.exit_sources

\* C5 as stated: no exit timer is scheduled or fired while any window of the
\* application is still Idle or Animating.
C5_NoExitBeforeAllDone ==
    \A w \in Windows :
        (w.exit_scheduled \/ w.n_exit_timers > 0) =>
            \A v \in Windows : AnimDone(v)

\* C5 amended: a window's exit timer is scheduled or fired only with
\* exit-after > 0 and after that same window has reached Done, with a delay
\* of exit-after seconds cut to whole milliseconds; a shutdown that no key
\* asked for comes from such a timer.
C5_NoExitBeforeOwnDone ==
    /\ \A w \in Windows :
          (w.exit_scheduled \/ w.n_exit_timers > 0 \/ w.exit_sources > 0) =>
              /\ args.exit_after > 0
              /\ AnimDone(w) /\ w.n_final >= 1
              /\ w.exit_delay_ms * 10 <= args.exit_after
              /\ args.exit_after < (w.exit_delay_ms + 1) * 10
    /\ (quit_requested /\ key_handled # "True") =>
          \E w \in Windows : ExitFired(w) /\ AnimDone(w)

\* the exit timer of a window that revealed tokens has fired and quit
C5_Witness ==
    /\ quit_requested /\ key_handled # "True"
    /\ \E w \in Windows : NTokens(w) >= 1 /\ ExitFired(w) /\ w.index = NTokens(w)

\* C6: with exit-after <= 0 no window ever schedules an exit timer, and a
\* shutdown is requested only by a key press.
C6_NoAutoClose ==
    args.exit_after <= 0 =>
        /\ \A w \in Windows :
              ~w.exit_scheduled /\ w.n_exit_timers = 0 /\ w.exit_sources = 0
        /\ quit_requested => key_handled = "True"

\* with exit-after 0 a window has finished its animation and stays open
C6_Witness ==
    /\ args.exit_after = 0
    /\ ~quit_requested
    /\ \E w \in Windows :
          NTokens(w) >= 1 /\ AnimDone(w) /\ w.n_final = 1 /\ ~w.exit_scheduled

\* the per-display pass of _build_windows runs
PerDisplayPass == args.all_monitors /\ Gtk4LayerShell /\ display

\* the first display whose anchoring fails
FirstFailure ==
    CHOOSE k \in 1..Len(monitors) :
        monitors[k] = "fail" /\ \A j \in 1..(k - 1) : monitors[j] # "fail"

\* C7: when the per-display pass meets a display k whose anchoring fails,
\* the windows of displays 1..k are all destroyed (the k - 1 anchored ones
\* and the failing one), a warning is printed, and the window set is one
\* unanchored window bound to no display.
C7_AllOrNothing ==
    (activations > 0 /\ PerDisplayPass /\ \E k \in 1..Len(monitors) : monitors[k] = "fail") =>
        /\ Len(windows) = 1
        /\ windows[1].monitor = 0
        /\ ~windows[1].layer_shell_enabled
        /\ Len(destroyed) = FirstFailure
        /\ {destroyed[j].monitor : j \in 1..Len(destroyed)} = 1..FirstFailure
        /\ \A j \in 1..Len(destroyed) :
              destroyed[j].layer_shell_enabled = (destroyed[j].monitor < FirstFailure)
        /\ \E j \in 1..Len(warnings) : warnings[j] = WarnInitFailed

\* anchoring failed for the last display after an earlier one was anchored
C7_Witness ==
    /\ activations > 0 /\ PerDisplayPass
    /\ Len(monitors) >= 2
    /\ monitors[1] = "ok" /\ monitors[Len(monitors)] = "fail"
    /\ Len(windows) = 1 /\ Len(destroyed) >= 2

\* C8: every window is started exactly once however many activations are
\* delivered, and an activation after the first changes neither the window
\* set nor any window (index, text, timers), destroys nothing and prints
\* nothing.
C8_ActivateIdempotent ==
    /\ [](\A w \in Windows : w.n_starts = 1 /\ w.tick_sources <= 1)
    /\ [][(activations' > activations /\ activations >= 1) =>
             /\ windows' = windows
             /\ destroyed' = destroyed
             /\ warnings' = warnings
             /\ animation_started' = animation_started]_vars

\* a second activation has been delivered to an application with two
\* windows, one of them in the middle of its animation
C8_Witness ==
    /\ activations >= 2
    /\ Len(windows) >= 2
    /\ \E w \in Windows : 0 < w.index /\ w.index < NTokens(w) /\ w.tick_sources = 1

\* max(1, round(1000 / max(speed, 0.01))), speed in hundredths; a tie is
\* rounded to the even neighbour as round() does
RoundedPeriod(speed) ==
    LET m == Max(speed, MinSpeed)
        q == 100000 \div m
        r == 100000 % m
        nearest == IF 2 * r > m \/ (2 * r = m /\ q % 2 = 1) THEN q + 1 ELSE q
    IN  Max(1, nearest)

\* C9: the period given to the recurring timer is
\* max(1, round(1000 / max(speed, epsilon))) milliseconds.
C9_PeriodIsRounded ==
    \A w \in Windows :
        (w.n_starts > 0 /\ NTokens(w) > 0) => w.interval_ms = RoundedPeriod(args.speed)

\* the final layout of left-to-center: centred, nothing reserved
FinalLayout(label) ==
    /\ label.size_request = -1
    /\ label.halign = "CENTER" /\ label.xalign = 50 /\ label.justify = "CENTER"

\* C10 as stated: under left-to-center the reserved width is the measured
\* width of the full message until Done, and on Done the reservation is
\* cleared and the label centred; under center and left nothing is reserved.
C10_ReservedIsMeasured ==
    \A w \in Windows :
        IF args.reveal_position = "left-to-center"
        THEN /\ w.n_final = 0 => w.label.size_request = PixelWidth(args.message)
             /\ w.n_final > 0 => FinalLayout(w.label)
        ELSE w.label.size_request = -1

\* C10 amended: as stated when the full message measures more than 0
\* pixels; when it measures 0 nothing is reserved before Done either.
C10_ReservedIfPositive ==
    \A w \in Windows :
        IF args.reveal_position = "left-to-center"
        THEN /\ w.n_final = 0 =>
                    w.label.size_request =
                        IF PixelWidth(args.message) > 0
                        THEN PixelWidth(args.message) ELSE -1
             /\ w.n_final > 0 => FinalLayout(w.label)
        ELSE w.label.size_request = -1

\* in the middle of a left-to-center animation the label reserves the
\* width of the full message, wider than the text shown
C10_Witness ==
    /\ args.reveal_position = "left-to-center"
    /\ \E w \in Windows :
          /\ 0 < w.index /\ w.index < NTokens(w)
          /\ w.label.size_request = PixelWidth(args.message)
          /\ PixelWidth(w.label.text) < PixelWidth(args.message)
          /\ PixelWidth(w.label.text) > 0

\* C11: with all-monitors requested and the layer-shell capability missing,
\* activation prints the warning and leaves exactly one window, bound to no
\* display and not anchored, whatever the number of displays; nothing is
\* created per display.
C11_FallbackWithoutCapability ==
    (activations > 0 /\ args.all_monitors /\ ~Gtk4LayerShell) =>
        /\ Len(windows) = 1
        /\ windows[1].monitor = 0
        /\ ~windows[1].layer_shell_enabled
        /\ warnings = <<WarnNoLayerShell>>
        /\ destroyed = <<>>

\* the fallback has happened with two displays connected
C11_Witness ==
    /\ activations > 0 /\ args.all_monitors /\ ~Gtk4LayerShell
    /\ display /\ Len(monitors) >= 2
    /\ Len(windows) = 1

QuitKeys == {"Escape", "Return", "KP_Enter"}

\* C12: a press of Escape, Return or keypad Enter on any presented window
\* requests shutdown whatever the state of the animation and of the exit
\* timer; a press of any other key requests nothing and leaves the windows
\* and the application as they were.
C12_KeysQuit ==
    /\ [](\A i \in 1..Len(windows), keyval \in Keyvals :
             (windows[i].presented /\ ~quit_requested) =>
                 ENABLED KeyPressed(i, keyval))
    /\ [][\A i \in 1..Len(windows), keyval \in Keyvals :
             KeyPressed(i, keyval) =>
                 IF keyval \in QuitKeys
                 THEN quit_requested' /\ key_handled' = "True"
                 ELSE /\ key_handled' = "False"
                      /\ UNCHANGED <<windows, animation_started, destroyed,
                                     warnings, quit_requested, activations>>]_vars

\* a key has requested shutdown in the middle of an animation
C12_Witness ==
    /\ quit_requested /\ key_handled = "True"
    /\ \E w \in Windows : 0 < w.index /\ w.index < NTokens(w)

\* C15: the final layout is applied to a window exactly once, when it
\* reaches Done, and not before: the count of final-layout calls is 1 for a
\* window that is Done and 0 for any other, destroyed windows included.
C15_FinalLayoutOnce ==
    /\ \A w \in Windows : w.n_final = IF AnimDone(w) THEN 1 ELSE 0
    /\ \A j \in 1..Len(destroyed) : destroyed[j].n_final = 0

\* a window that revealed tokens is Done and has seen a later activation
C15_Witness ==
    /\ activations >= 2
    /\ \E w \in Windows : NTokens(w) >= 1 /\ AnimDone(w) /\ w.n_final = 1

\* C17: with a speed <= 0 the period is that of the floor rate 0.01 (100000
\* ms, positive), the recurring timer is installed, and the window goes
\* through one tick per token to Done.
C17_NonPositiveSpeedClamped ==
    \A w \in Windows :
        (args.speed <= 0 /\ NTokens(w) > 0) =>
            /\ w.interval_ms = 100000
            /\ w.n_ticks = w.index
            /\ w.index < NTokens(w) => w.tick_sources = 1 /\ w.n_final = 0
            /\ w.index = NTokens(w) => w.tick_sources = 0 /\ w.n_final = 1

\* with a speed <= 0 a window has revealed two tokens and is Done
C17_Witness ==
    /\ args.speed <= 0
    /\ \E w \in Windows : NTokens(w) = 2 /\ w.n_ticks = 2 /\ AnimDone(w)

\* the fields of a window that make up its animation state
AnimState(w) ==
    <<w.index, w.current_text, w.exit_scheduled, w.layer_shell_enabled>>

\* C18: a dispatch of _tick (with the exit scheduling it may do) or of _exit
\* for window i leaves the index, text, exit_scheduled and layer_shell_enabled
\* of every other window as they were, and the first activation starts every
\* window from the same animation state bar the anchoring.
C18_WindowsIndependent ==
    [][/\ \A i \in 1..Len(windows) :
             (TickFire(i) \/ ExitFire(i)) =>
                 \A j \in 1..Len(windows) \ {i} :
                     AnimState(windows'[j]) = AnimState(windows[j])
       /\ (activations = 0 /\ activations' = 1) =>
             \A i, j \in 1..Len(windows') :
                 /\ windows'[i].index = 0 /\ windows'[i].current_text = <<>>
                 /\ windows'[i].exit_scheduled = windows'[j].exit_scheduled]_vars

\* two windows of one application at different points of the animation
C18_Witness ==
    /\ Len(windows) >= 2
    /\ windows[1].index # windows[2].index
    /\ windows[1].exit_scheduled # windows[2].exit_scheduled

\* C19: once activated the window set is never empty and never mixed: it is
\* one unanchored window bound to no display, or one or more windows that
\* are all anchored, each to its own display.
C19_HomogeneousWindowSet ==
    activations > 0 =>
        /\ Len(windows) >= 1
        /\ \/ /\ Len(windows) = 1
              /\ ~windows[1].layer_shell_enabled
              /\ windows[1].monitor = 0
           \/ \A i \in 1..Len(windows) :
                 /\ windows[i].layer_shell_enabled
                 /\ windows[i].monitor = i

\* one anchored window per display, two displays
C19_Witness ==
    /\ activations > 0
    /\ Len(windows) = 2
    /\ \A i \in 1..Len(windows) : windows[i].layer_shell_enabled

\* detection finds nothing and none of the absolute candidates exists
NothingLocated ==
    /\ detected = "None"
    /\ \A j \in 1..Len(Candidates) :
          IsAbs(Candidates[j]) => Candidates[j] \notin existing

\* C13: the re-execution is skipped whenever the guard variable is set, the
\* opt-out variable is set, or no layer-shell library can be located.
C13_SkipWhenNothingLocated ==
    [][(/\ startup.phase = "start"
        /\ \/ environ.HYPR_MESSAGE_PRELOAD_DONE = "1"
           \/ environ.HYPR_MESSAGE_DISABLE_PRELOAD = "1"
           \/ NothingLocated)
       => startup'.execs = startup.execs]_vars

\* C14: however start_animation and _tick are called on a window, it
\* installs at most one exit timer: none with exit-after <= 0, and with
\* exit-after > 0 exactly one from the first completion on, with
\* exit_scheduled set from then on.
C14_ExitScheduledOnce ==
    \A w \in Windows :
        /\ w.n_exit_timers <= 1
        /\ w.exit_sources <= w.n_exit_timers
        /\ w.exit_scheduled = (w.n_exit_timers = 1)
        /\ (w.n_exit_timers = 1) = (args.exit_after > 0 /\ w.n_final >= 1)

\* _schedule_exit_if_needed has been called twice and the one timer it
\* installed has fired
C14_Witness ==
    \E w \in Windows :
        w.n_final >= 2 /\ w.n_exit_timers = 1 /\ w.exit_sources = 0

\* C20: the process chain holds at most one exec; the re-executed process
\* has HYPR_MESSAGE_PRELOAD_DONE=1 and an LD_PRELOAD that starts with the
\* chosen library, and goes on to GUI startup.
C20_AtMostOneExec ==
    /\ startup.execs <= 1
    /\ startup.execs = 1 =>
          /\ environ.HYPR_MESSAGE_PRELOAD_DONE = "1"
          /\ startup.library # "None"
          /\ environ.LD_PRELOAD # <<>>
          /\ Head(environ.LD_PRELOAD) = startup.library
          /\ ~ensure_layer_shell_preloaded.exec

\* the re-executed process has passed _ensure_layer_shell_preloaded, with
\* an entry of the first process kept behind the library
C20_Witness ==
    /\ startup.execs = 1 /\ startup.phase = "gui"
    /\ Len(environ.LD_PRELOAD) = 2

====
